---------------------------- MODULE Spec2Model ----------------------------
(***************************************************************************)
(* Model of ScatterChart (src/packages/lib/src/js/charts/scatter.js): the  *)
(* point registry, the active-point setter, the pointer-event handlers and *)
(* redraw().                                                               *)
(*                                                                         *)
(* JavaScript arrays are 0-based: the pair (i, j) of the source addresses  *)
(* points[i + 1][j + 1] of the sequences below.  Fill opacities are kept   *)
(* in tenths (0.3 is 3, 1 is 10).  A handler is an operator from the       *)
(* chart's state (a record with one field per variable) to the state it    *)
(* leaves behind; an action applies one handler to the current state.      *)
(* The rug, legend and brush collaborators mounted by redraw() read and    *)
(* write none of the fields modelled here and are left out.                *)
(***************************************************************************)
EXTENDS Integers, Sequences, FiniteSets, TLC

VARIABLES
    data,          \* this.data: the nested series, a sequence of sequences of records
    points,        \* this.points: the Point Registry, handles by series and position
    container,     \* this.container: ids of the handles mounted in the drawing container
    delaunay,      \* this.delaunay: the Coordinate Index built by the last redraw
    delaunayPoint, \* this.delaunayPoint: the marker point of the index
    listeners,     \* the indexes whose pointer handlers are wired to the container
    _activePoint,  \* this._activePoint: {i, j}, (-1, -1) when idle
    tooltip,       \* whether this.tooltip is set
    tooltipState,  \* what the tooltip collaborator shows
    nextId,        \* identity of the next object created (handle or index)
    redraws,       \* number of redraw() calls after construction
    stale,         \* the registry was replaced since _activePoint was stored
    err,           \* outcome of the last operation: "none" or "TypeError"
    last,          \* the last operation: its input and the calls it issued
    args,          \* the constructor's arguments: args.data is the data as given
    isArrayOfObjects, \* this.isArrayOfObjects: the data was given as a flat array
    normalizations,   \* number of normalizeData() calls so far
    pixel          \* record -> <<x, y>>: the accessors composed with the scales

vars == <<data, points, container, delaunay, delaunayPoint, listeners,
          _activePoint, tooltip, tooltipState, nextId, redraws, stale, err, last,
          args, isArrayOfObjects, normalizations, pixel>>

\* ------------------------------------------------------------------ bounds
MaxSeries == 2
MaxPoints == 3
MaxRedraws == 1
MaxNormalizations == 2

\* --------------------------------------------------------------- constants
None == -1
DimOpacity == 3
EmphasizedOpacity == 10
DefaultRadius == 3
StrokeWidth == 1
MarkerRadius == 3

\* ------------------------------------------------------------------- data
\* The record at position j of series i.
RecordAt(i, j) == 10 * i + j

SeriesOf(i, n) == [k \in 1..n |-> RecordAt(i, k - 1)]

\* The nested data with the given series lengths.
DataOf(lens) == [k \in 1..Len(lens) |-> SeriesOf(k - 1, lens[k])]

RECURSIVE SeqsUpTo(_, _)
SeqsUpTo(S, n) ==
    IF n = 0 THEN {<<>>}
    ELSE LET shorter == SeqsUpTo(S, n - 1)
         IN shorter \cup {Append(q, x) : q \in {r \in shorter : Len(r) = n - 1}, x \in S}

RECURSIVE Sum(_)
Sum(q) == IF q = <<>> THEN 0 ELSE Head(q) + Sum(Tail(q))

\* The datasets: at most MaxSeries series holding at most MaxPoints records in all.
Shapes == {lens \in SeqsUpTo(0..MaxPoints, MaxSeries) : Sum(lens) <= MaxPoints}

DataSets == {DataOf(lens) : lens \in Shapes}

\* Data as the constructor receives it, before its shape is known: a value is
\* a record (arr = FALSE) or an array of values (arr = TRUE).
Rec(r) == [arr |-> FALSE, rec |-> r, items |-> <<>>]

Arr(xs) == [arr |-> TRUE, rec |-> None, items |-> xs]

\* A flat array of n records, and the nested array with the given series lengths.
FlatOf(n) == Arr([k \in 1..n |-> Rec(RecordAt(0, k - 1))])

NestedOf(lens) ==
    Arr([k \in 1..Len(lens) |-> Arr([m \in 1..lens[k] |-> Rec(RecordAt(k - 1, m - 1))])])

\* Every element of the array v is a record; every element is an array of records.
AllRecords(v) == \A k \in 1..Len(v.items) : ~v.items[k].arr

AllSeries(v) == \A k \in 1..Len(v.items) : v.items[k].arr /\ AllRecords(v.items[k])

\* The inputs the nested-series model admits: flat arrays of records and arrays
\* of series.
WellFormed(v) == v.arr /\ (AllRecords(v) \/ AllSeries(v))

WellFormedInputs ==
    {FlatOf(n) : n \in 1..MaxPoints} \cup {NestedOf(lens) : lens \in Shapes}

\* Element k of a raw input: a record, or a series of n records.
RawElement(k, n) ==
    IF n = None THEN Rec(RecordAt(0, k - 1))
    ELSE Arr([m \in 1..n |-> Rec(RecordAt(k - 1, m - 1))])

\* Every array of at most MaxPoints elements, each a record or a series of at
\* most MaxPoints records: flat, nested and mixed inputs.
RawInputs ==
    {Arr([k \in 1..Len(q) |-> RawElement(k, q[k])]) : q \in SeqsUpTo(None..MaxPoints, MaxPoints)}

\* A well-formed array of series as the plain sequences the chart works on.
Plain(v) ==
    [k \in 1..Len(v.items) |->
        [m \in 1..Len(v.items[k].items) |-> v.items[k].items[m].rec]]

\* The pixel position of every record: xScale(xAccessor(r)), yScale(yAccessor(r)).
AllRecordIds == {RecordAt(i, j) : i \in 0..MaxSeries, j \in 0..MaxPoints}

DefaultPixel == [r \in AllRecordIds |-> <<r \div 10, r % 10>>]

\* ------------------------------------------------------------------ state
\* The chart's state as one record, the argument and result of every handler.
State ==
    [data |-> data, points |-> points, container |-> container,
     delaunay |-> delaunay, delaunayPoint |-> delaunayPoint,
     listeners |-> listeners, _activePoint |-> _activePoint,
     tooltip |-> tooltip, tooltipState |-> tooltipState, nextId |-> nextId,
     redraws |-> redraws, stale |-> stale, err |-> err, last |-> last,
     args |-> args, isArrayOfObjects |-> isArrayOfObjects,
     normalizations |-> normalizations, pixel |-> pixel]

\* The state a handler returns becomes the next state.
Becomes(s) ==
    /\ data' = s.data
    /\ points' = s.points
    /\ container' = s.container
    /\ delaunay' = s.delaunay
    /\ delaunayPoint' = s.delaunayPoint
    /\ listeners' = s.listeners
    /\ _activePoint' = s._activePoint
    /\ tooltip' = s.tooltip
    /\ tooltipState' = s.tooltipState
    /\ nextId' = s.nextId
    /\ redraws' = s.redraws
    /\ stale' = s.stale
    /\ err' = s.err
    /\ last' = s.last
    /\ args' = s.args
    /\ isArrayOfObjects' = s.isArrayOfObjects
    /\ normalizations' = s.normalizations
    /\ pixel' = s.pixel

\* The record of an operation as it starts: nothing called yet, no error.
Begin(s, op, i, j, src) ==
    [s EXCEPT !.err = "none",
              !.last = [op |-> op, i |-> i, j |-> j, src |-> src,
                        before |-> s._activePoint,
                        pointCalls |-> <<>>, tooltipCalls |-> <<>>,
                        staleDeref |-> FALSE]]

\* An uncaught TypeError: the handler stops where it is.
Throw(s) == [s EXCEPT !.err = "TypeError"]

\* ------------------------------------------------------- the point registry
\* pts[i][j] is a handle: both JavaScript index operations find an element.
HasPoint(pts, i, j) ==
    /\ i \in 0..(Len(pts) - 1)
    /\ j \in 0..(Len(pts[i + 1]) - 1)

\* The pairs that address a handle of pts.
Pairs(pts) ==
    UNION {{<<i, j>> : j \in 0..(Len(pts[i + 1]) - 1)} : i \in 0..(Len(pts) - 1)}

\* The pairs whose handle has the emphasized fill opacity.
EmphasizedPairs(pts) ==
    {p \in Pairs(pts) : pts[p[1] + 1][p[2] + 1].fillOpacity = EmphasizedOpacity}

\* The ids of the handles of the registry.
RegistryIds(pts) == {pts[p[1] + 1][p[2] + 1].id : p \in Pairs(pts)}

\* Number of records in the series before series k (1-based) of d.
RECURSIVE CountBefore(_, _)
CountBefore(d, k) ==
    IF k <= 1 THEN 0 ELSE CountBefore(d, k - 1) + Len(d[k - 1])

\* this.generatePoint(...): a new handle object, not yet mounted.
generatePoint(id, rec, color, radius, fillOpacity, strokeWidth) ==
    [id |-> id, data |-> rec, color |-> color, radius |-> radius,
     fillOpacity |-> fillOpacity, strokeWidth |-> strokeWidth]

\* point.mountTo(container): the handle is added to the drawing container.
PointMountTo(cont, ids) == cont \cup ids

\* point.update({ fillOpacity }): sets the one style field on the handle at (i, j).
update(s, i, j, fillOpacity) ==
    [s EXCEPT !.points[i + 1][j + 1].fillOpacity = fillOpacity,
              !.last.pointCalls =
                  Append(@, [i |-> i, j |-> j, fillOpacity |-> fillOpacity])]

\* mountPoints() leaving out the series that hold no record.
mountPointsSkipsEmptySeries(s) ==
    LET d == SelectSeq(s.data, LAMBDA q : Len(q) > 0)
        idOf(k, m) == s.nextId + CountBefore(d, k) + (m - 1)
        pts == [k \in 1..Len(d) |->
                   [m \in 1..Len(d[k]) |->
                       generatePoint([kind |-> "point", n |-> idOf(k, m)], d[k][m],
                                     k - 1, DefaultRadius, DimOpacity, StrokeWidth)]]
    IN [s EXCEPT !.points = pts,
                 !.container = PointMountTo(@, RegistryIds(pts)),
                 !.nextId = @ + CountBefore(d, Len(d) + 1),
                 !.stale = (s._activePoint.i # None /\ s._activePoint.j # None)]

\* mountPoints(): one new handle per record, in series order, each mounted to
\* the container; this.points is replaced by the new handles.
mountPoints(s) ==
    LET d == s.data
        idOf(k, m) == s.nextId + CountBefore(d, k) + (m - 1)
        pts == [k \in 1..Len(d) |->
                   [m \in 1..Len(d[k]) |->
                       generatePoint([kind |-> "point", n |-> idOf(k, m)], d[k][m],
                                     k - 1, DefaultRadius, DimOpacity, StrokeWidth)]]
    IN [s EXCEPT !.points = pts,
                 !.container = PointMountTo(@, RegistryIds(pts)),
                 !.nextId = @ + CountBefore(d, Len(d) + 1),
                 !.stale = (s._activePoint.i # None /\ s._activePoint.j # None)]

\* ------------------------------------------------------ the coordinate index
\* delaunay.mountTo(container): the index mounts its pointer-event capture
\* surface into the container, next to whatever is mounted there already;
\* nothing takes an earlier surface away.
DelaunayMountTo(ls, d) == ls \cup {d}

\* mountDelaunay(): a new marker point (not mounted) and a new index over
\* this.data with the accessors and scales, mounted to the container.
mountDelaunay(s) ==
    LET marker == [id |-> [kind |-> "marker", n |-> s.nextId], radius |-> MarkerRadius]
        index == [id |-> s.nextId + 1, points |-> s.data, pixel |-> s.pixel,
                  nested |-> TRUE]
    IN [s EXCEPT !.delaunayPoint = marker,
                 !.delaunay = index,
                 !.listeners = DelaunayMountTo(@, index),
                 !.nextId = @ + 2]

\* ------------------------------------------------------------- the tooltip
\* tooltip.update(fields): shows the tooltip with the fields given; of what the
\* collaborator keeps, its legend type and whether it is shown are modelled (the
\* record it was last given is in last.tooltipCalls).
TooltipUpdateLegend(s, legendObject) ==
    [s EXCEPT !.tooltipState.legendObject = legendObject,
              !.tooltipState.visible = TRUE,
              !.last.tooltipCalls =
                  Append(@, [call |-> "update", legendObject |-> legendObject, data |-> <<>>])]

TooltipUpdateData(s, point) ==
    [s EXCEPT !.tooltipState.visible = TRUE,
              !.last.tooltipCalls =
                  Append(@, [call |-> "update", legendObject |-> "", data |-> <<point>>])]

\* tooltip.hide()
TooltipHide(s) ==
    [s EXCEPT !.tooltipState.visible = FALSE,
              !.last.tooltipCalls =
                  Append(@, [call |-> "hide", legendObject |-> "", data |-> <<>>])]

\* ------------------------------------------------------ set activePoint
\* The first statement of the setter: de-set the previously active point.
DeSet(s) ==
    LET a == s._activePoint
    IN IF a.i # None /\ a.j # None
       THEN LET t == [s EXCEPT !.last.staleDeref = s.stale]
            IN IF HasPoint(t.points, a.i, a.j)
               THEN update(t, a.i, a.j, DimOpacity)
               ELSE Throw(t)
       ELSE s

\* update() on the handles 0..j of series i.
RECURSIVE updateUpTo(_, _, _, _)
updateUpTo(s, i, j, fillOpacity) ==
    IF j < 0 THEN s ELSE update(updateUpTo(s, i, j - 1, fillOpacity), i, j, fillOpacity)

\* The setter emphasizing the whole series of the new point (points[i] for
\* points[i][j]).
setActivePointWholeSeries(s, i, j) ==
    LET s1 == DeSet(s)
    IN IF s1.err # "none" THEN s1
       ELSE LET s2 == [s1 EXCEPT !._activePoint = [i |-> i, j |-> j],
                                 !.stale = FALSE]
            IN IF i # None /\ j # None
               THEN IF HasPoint(s2.points, i, j)
                    THEN updateUpTo(s2, i, Len(s2.points[i + 1]) - 1, EmphasizedOpacity)
                    ELSE Throw(s2)
               ELSE s2

\* set activePoint ({ i, j })
setActivePoint(s, i, j) ==
    LET s1 == DeSet(s)
    IN IF s1.err # "none" THEN s1
       ELSE LET s2 == [s1 EXCEPT !._activePoint = [i |-> i, j |-> j],
                                 !.stale = FALSE]
            IN IF i # None /\ j # None
               THEN IF HasPoint(s2.points, i, j)
                    THEN update(s2, i, j, EmphasizedOpacity)
                    ELSE Throw(s2)
               ELSE s2

\* ---------------------------------------------------------------- handlers
\* The function onPointHandler() returns; point is the payload of the index
\* (nested: true, so arrayIndex is always set and `?? 0` never applies).
onPointHandler(s, point) ==
    LET s1 == setActivePoint(s, point.arrayIndex, point.index)
    IN IF s1.err # "none" THEN s1
       ELSE IF ~s1.tooltip THEN s1
       ELSE TooltipUpdateData(s1, point)

\* onLeaveHandler() clearing only the series index of the active point.
onLeaveHandlerHalfReset(s) ==
    LET s1 == setActivePoint(s, None, 0)
    IN IF s1.err # "none" THEN s1
       ELSE IF s1.tooltip THEN TooltipHide(s1)
       ELSE s1

\* The function onLeaveHandler() returns.
onLeaveHandler(s) ==
    LET s1 == setActivePoint(s, None, None)
    IN IF s1.err # "none" THEN s1
       ELSE IF s1.tooltip THEN TooltipHide(s1)
       ELSE s1

\* redraw()
redraw(s) ==
    LET s1 == IF s.tooltip THEN TooltipHide(TooltipUpdateLegend(s, "circle")) ELSE s
    IN mountDelaunay(mountPoints(s1))

\* ------------------------------------------------------------------- Init
\* The field initializers of the class, with the data, scales and tooltip the
\* constructor's arguments give (AbstractChart's constructor).  this.data is
\* kept as given (Rec/Arr) until normalizeData() has run.
Fields(a, px, tip) ==
    [data |-> a.data, points |-> <<>>, container |-> {},
     delaunay |-> [id |-> None, points |-> <<>>, pixel |-> px, nested |-> TRUE],
     delaunayPoint |-> [id |-> [kind |-> "marker", n |-> None], radius |-> MarkerRadius],
     listeners |-> {}, _activePoint |-> [i |-> None, j |-> None],
     tooltip |-> tip,
     tooltipState |-> [legendObject |-> "", visible |-> FALSE],
     nextId |-> 0, redraws |-> 0, stale |-> FALSE, err |-> "none",
     last |-> [op |-> "new", i |-> None, j |-> None, src |-> None,
               before |-> [i |-> None, j |-> None],
               pointCalls |-> <<>>, tooltipCalls |-> <<>>, staleDeref |-> FALSE],
     args |-> a, isArrayOfObjects |-> FALSE, normalizations |-> 0,
     pixel |-> px]

\* The data type flag AbstractChart's constructor sets from the data as given:
\* an array whose first element is a record is a flat array of records.
setDataTypeFlags(s) ==
    [s EXCEPT !.isArrayOfObjects =
                  (s.data.arr /\ Len(s.data.items) > 0 /\ ~s.data.items[1].arr)]

\* normalizeData(): a flat array becomes the one series of a nested array.  The
\* flag is read and left as it is.
normalizeData(s) ==
    [s EXCEPT !.data = IF s.isArrayOfObjects THEN Arr(<<s.data>>) ELSE s.data,
              !.normalizations = @ + 1]

\* The chart as the constructor has received its arguments and set its flags.
Received(a, px, tip) ==
    setDataTypeFlags(Begin(Fields(a, px, tip), "new", None, None, None))

\* From here on this.data is an array of series, kept as plain sequences; the
\* constructor's arguments are gone when it returns.
AsSeries(s) == [s EXCEPT !.data = Plain(s.data), !.args = [data |-> Arr(<<>>)]]

\* The constructor normalizes the data once and ends with this.redraw().
Constructed(a, px, tip) == redraw(AsSeries(normalizeData(Received(a, px, tip))))

\* The state s is the initial state.
Starts(s) ==
           /\ args = s.args
           /\ isArrayOfObjects = s.isArrayOfObjects
           /\ normalizations = s.normalizations
           /\ pixel = s.pixel
           /\ data = s.data
           /\ points = s.points
           /\ container = s.container
           /\ delaunay = s.delaunay
           /\ delaunayPoint = s.delaunayPoint
           /\ listeners = s.listeners
           /\ _activePoint = s._activePoint
           /\ tooltip = s.tooltip
           /\ tooltipState = s.tooltipState
           /\ nextId = s.nextId
           /\ redraws = s.redraws
           /\ stale = s.stale
           /\ err = s.err
           /\ last = s.last

Init ==
    \E v \in WellFormedInputs, tip \in BOOLEAN :
        Starts(Constructed([data |-> v], DefaultPixel, tip))

\* A chart under construction: any array received, flags set, not yet normalized.
InitIngest ==
    \E v \in RawInputs, tip \in BOOLEAN :
        Starts(Received([data |-> v], DefaultPixel, tip))

\* ---------------------------------------------------------------- actions
\* normalizeData() is called.
NormalizeData ==
    /\ normalizations < MaxNormalizations
    /\ Becomes(normalizeData(Begin(State, "normalizeData", None, None, None)))

\* The payload the index x delivers for its point (i, j).
PointOf(x, i, j) == [arrayIndex |-> i, index |-> j, data |-> x.points[i + 1][j + 1]]

\* The pointer moves over the plot: a wired index resolves one of its points.
OnPoint ==
    \E x \in listeners :
        \E p \in Pairs(x.points) :
            Becomes(onPointHandler(Begin(State, "onPoint", p[1], p[2], x.id),
                                   PointOf(x, p[1], p[2])))

\* The pointer leaves the plot.
OnLeave ==
    \E x \in listeners :
        Becomes(onLeaveHandler(Begin(State, "onLeave", None, None, x.id)))

\* The host calls redraw(), after replacing this.data or with the data as it is.
Redraw ==
    /\ redraws < MaxRedraws
    /\ \E d \in DataSets :
           LET s == Begin([State EXCEPT !.data = d, !.redraws = @ + 1],
                          "redraw", None, None, None)
           IN Becomes(redraw(s))

\* The handler receives a pair that addresses no handle of the registry (the
\* index and the registry out of step).
OnPointDesync ==
    \E i \in 0..MaxSeries, j \in 0..MaxPoints :
        /\ ~HasPoint(points, i, j)
        /\ Becomes(onPointHandler(Begin(State, "onPoint", i, j, None),
                                  [arrayIndex |-> i, index |-> j, data |-> RecordAt(i, j)]))

Next == OnPoint \/ OnLeave \/ Redraw

Spec == Init /\ [][Next]_vars

NextDesync == OnPoint \/ OnLeave \/ Redraw \/ OnPointDesync

SpecDesync == Init /\ [][NextDesync]_vars

NextIngest == NormalizeData

SpecIngest == InitIngest /\ [][NextIngest]_vars


\* ================================================================== claims
Highlighted(a) == a.i # None /\ a.j # None

Idle(a) == a.i = None /\ a.j = None

\* The pair the last event carried.
LastPair == [i |-> last.i, j |-> last.j]

\* The last operation was an onPoint carrying the pair that was already active.
SamePairEvent ==
    /\ last.op = "onPoint"
    /\ Highlighted(last.before)
    /\ last.before = LastPair
    /\ HasPoint(points, last.i, last.j)

\* The last operation was an onPoint that moved the highlight from another point.
MoveEvent ==
    /\ last.op = "onPoint"
    /\ Highlighted(last.before)
    /\ last.before # LastPair

\* The last operation was an onLeave received while idle.
LeaveWhileIdle == last.op = "onLeave" /\ Idle(last.before)

\* ---------------------------------------------------------------------- C1
\* C1: an onPoint carrying the pair that is already active is a no-op; it
\* issues no handle update and no tooltip update.
C1_SamePairIsNoOp ==
    SamePairEvent => (last.pointCalls = <<>> /\ last.tooltipCalls = <<>>)

\* What the code does instead: an onPoint carrying the pair (i, j) that is
\* already active leaves the stored pair (i, j) and ends with (i, j) the only
\* emphasized handle, but the handle at (i, j) is updated to 0.3 and then to 1,
\* and a tooltip, when present, is updated again with the point.
C1_SamePairKeepsHighlight ==
    SamePairEvent =>
        /\ err = "none"
        /\ _activePoint = last.before
        /\ EmphasizedPairs(points) = {<<last.i, last.j>>}
        /\ last.pointCalls =
               <<[i |-> last.i, j |-> last.j, fillOpacity |-> DimOpacity],
                 [i |-> last.i, j |-> last.j, fillOpacity |-> EmphasizedOpacity]>>
        /\ last.tooltipCalls =
               IF tooltip
               THEN <<[call |-> "update", legendObject |-> "",
                       data |-> <<PointOf(delaunay, last.i, last.j)>>]>>
               ELSE <<>>

\* ---------------------------------------------------------------------- C2
\* C2: after a redraw() replaced the registry, no event dereferences the new
\* registry with the pair that was stored under the previous one.
C2_StalePairNeverDereferenced == last.staleDeref = FALSE

\* ---------------------------------------------------------------------- C3
\* C3: after an onPoint(k, l) received in Highlighted(i, j), (i, j) # (k, l),
\* exactly point (k, l) is emphasized and point (i, j) is dim.
C3_MoveLeavesOneEmphasized ==
    MoveEvent =>
        /\ EmphasizedPairs(points) = {<<last.i, last.j>>}
        /\ HasPoint(points, last.before.i, last.before.j)
        /\ points[last.before.i + 1][last.before.j + 1].fillOpacity = DimOpacity

\* ---------------------------------------------------------------------- C4
\* C4: after any onLeave the active state is Idle (-1, -1) and no handle of the
\* registry is emphasized.
C4_LeaveEndsIdle ==
    last.op = "onLeave" =>
        (Idle(_activePoint) /\ EmphasizedPairs(points) = {})

\* ---------------------------------------------------------------------- C5
\* C5: an onLeave received while idle is a no-op; it issues no handle update
\* and does not call the tooltip's hide() again.
C5_LeaveWhileIdleIsNoOp ==
    LeaveWhileIdle => (last.pointCalls = <<>> /\ last.tooltipCalls = <<>>)

\* ---------------------------------------------------------------------- C6
\* C6: the stored active point is (-1, -1) or a pair of two indices >= 0, never
\* a pair with exactly one index equal to -1.
C6_NoHalfSetActivePoint ==
    \/ Idle(_activePoint)
    \/ (_activePoint.i >= 0 /\ _activePoint.j >= 0)

C6_Witness ==
    /\ redraws >= 1
    /\ last.op = "onLeave"
    /\ Highlighted(last.before)
    /\ Idle(_activePoint)

\* ---------------------------------------------------------------------- C7
\* C7: an onPoint carrying a pair outside the registry ends in an error and
\* mutates no handle.
C7_OutOfRangeFailsWithoutMutation ==
    (last.op = "onPoint" /\ ~HasPoint(points, last.i, last.j)) =>
        (err # "none" /\ last.pointCalls = <<>>)

\* ---------------------------------------------------------------------- C8
\* What of the chart does not belong to the tooltip.
Core(s) ==
    [data |-> s.data, points |-> s.points, container |-> s.container,
     delaunay |-> s.delaunay, listeners |-> s.listeners,
     _activePoint |-> s._activePoint, err |-> s.err,
     pointCalls |-> s.last.pointCalls]

\* The current state of a chart without tooltip, had it a tooltip.
WithTooltip == [State EXCEPT !.tooltip = TRUE]

\* Every operation takes the chart without tooltip and the chart with one to
\* states with the same core.
SameCoreAsWithTooltip ==
    /\ \A x \in listeners : \A p \in Pairs(x.points) :
           Core(onPointHandler(Begin(State, "onPoint", p[1], p[2], x.id),
                               PointOf(x, p[1], p[2])))
           = Core(onPointHandler(Begin(WithTooltip, "onPoint", p[1], p[2], x.id),
                                 PointOf(x, p[1], p[2])))
    /\ Core(onLeaveHandler(Begin(State, "onLeave", None, None, None)))
       = Core(onLeaveHandler(Begin(WithTooltip, "onLeave", None, None, None)))
    /\ \A d \in DataSets :
           Core(redraw(Begin([State EXCEPT !.data = d], "redraw", None, None, None)))
           = Core(redraw(Begin([WithTooltip EXCEPT !.data = d], "redraw", None, None, None)))

\* The part of C8 that is about the tooltip: without a tooltip no tooltip call
\* is made, and the core evolves as it does with one.
C8_TooltipCallsGuarded ==
    ~tooltip => (last.tooltipCalls = <<>> /\ SameCoreAsWithTooltip)

\* C8: without a tooltip no sequence of redraw, onPoint and onLeave raises an
\* error or makes a tooltip call, and the core evolves as it does with one.
C8_TooltipOptional ==
    ~tooltip => (err = "none" /\ last.tooltipCalls = <<>> /\ SameCoreAsWithTooltip)

\* ---------------------------------------------------------------------- C9
\* C9: the handles mounted in the drawing container are exactly the handles of
\* the current registry.
C9_ContainerIsRegistry == container = RegistryIds(points)

\* --------------------------------------------------------------------- C10
\* C10: after a redraw no subscription wired by an earlier redraw is live: only
\* the index built by the last redraw is wired, only its handlers deliver
\* events, and no marker point is mounted.
C10_OnlyLastIndexWired ==
    /\ listeners = {delaunay}
    /\ (last.op \in {"onPoint", "onLeave"} => last.src = delaunay.id)
    /\ \A h \in container : h.kind # "marker"

\* --------------------------------------------------------------------- C11
\* C11: the registry and the data handed to the index have the same index
\* space: the same number of series and, series by series, the same number of
\* points, so every pair the index resolves names a handle.
SameIndexSpace(pts, d) ==
    /\ Len(pts) = Len(d)
    /\ \A k \in 1..Len(pts) : Len(pts[k]) = Len(d[k])

C11_SameIndexSpace ==
    /\ SameIndexSpace(points, delaunay.points)
    /\ \A p \in Pairs(delaunay.points) : HasPoint(points, p[1], p[2])

C11_Witness ==
    /\ last.op = "redraw"
    /\ Len(points) = 2
    /\ Len(points[1]) = 0
    /\ Len(points[2]) = 2

\* --------------------------------------------------------------------- C12
\* The pairs the calls of update() in cs addressed.
Targets(cs) == {<<cs[n].i, cs[n].j>> : n \in 1..Len(cs)}

\* C12: an onPoint or onLeave transition updates at most two handles, the
\* previously active one and the newly active one, and leaves the style of
\* every other handle of the registry as it was.
C12_AtMostTwoHandles ==
    [][last'.op \in {"onPoint", "onLeave"} =>
          LET touched == {<<last'.before.i, last'.before.j>>, <<last'.i, last'.j>>}
          IN /\ Len(last'.pointCalls) <= 2
             /\ Targets(last'.pointCalls) \subseteq touched
             /\ Pairs(points') = Pairs(points)
             /\ \A p \in Pairs(points) \ touched :
                    points'[p[1] + 1][p[2] + 1] = points[p[1] + 1][p[2] + 1]]_vars

C12_Witness ==
    /\ MoveEvent
    /\ err = "none"
    /\ Len(last.pointCalls) = 2
    /\ Cardinality(Pairs(points)) >= 3


\* --------------------------------------------------------------------- C13
\* The calls of tooltip.hide() among the calls cs.
HideCalls(cs) == {n \in 1..Len(cs) : cs[n].call = "hide"}

\* The scenario of two series, series 0 with two points and series 1 with one:
\* onPoint(0,0), onPoint(1,0), onLeave on a chart with a tooltip.
ScenarioStart == Constructed([data |-> NestedOf(<<2, 1>>)], DefaultPixel, TRUE)

ScenarioPoint(s, i, j) ==
    onPointHandler(Begin(s, "onPoint", i, j, s.delaunay.id), PointOf(s.delaunay, i, j))

ScenarioFirst == ScenarioPoint(ScenarioStart, 0, 0)

ScenarioSecond == ScenarioPoint(ScenarioFirst, 1, 0)

ScenarioThird ==
    onLeaveHandler(Begin(ScenarioSecond, "onLeave", None, None, ScenarioSecond.delaunay.id))

\* The scenario yields Highlighted(0,0), Highlighted(1,0), Idle with the tooltip
\* shown, shown, hidden, and (0,0) dim again after the second event.
ScenarioHolds ==
    /\ ScenarioFirst._activePoint = [i |-> 0, j |-> 0]
    /\ ScenarioFirst.tooltipState.visible
    /\ ScenarioSecond._activePoint = [i |-> 1, j |-> 0]
    /\ ScenarioSecond.tooltipState.visible
    /\ HideCalls(ScenarioSecond.last.tooltipCalls) = {}
    /\ EmphasizedPairs(ScenarioSecond.points) = {<<1, 0>>}
    /\ Idle(ScenarioThird._activePoint)
    /\ ~ScenarioThird.tooltipState.visible
    /\ EmphasizedPairs(ScenarioThird.points) = {}

\* The part of C13 about the steps in between: during an onPoint the stored
\* pair takes no value but the previous pair and the new one, never Idle, and
\* hide() is not called; Idle is entered only by onLeave; the scenario holds.
C13_NoIntermediateIdle ==
    /\ last.op = "onPoint" =>
           /\ _activePoint \in {last.before, LastPair}
           /\ Highlighted(last.before) => Highlighted(_activePoint)
           /\ HideCalls(last.tooltipCalls) = {}
    /\ (Idle(_activePoint) /\ ~Idle(last.before)) => last.op = "onLeave"
    /\ ScenarioHolds

\* C13: an onPoint received in Highlighted(i, j) moves the state directly to
\* Highlighted(k, l), with no Idle in between and no hide(); Idle is entered
\* only by onLeave; the two-series scenario yields Highlighted(0,0),
\* Highlighted(1,0), Idle with the tooltip shown, shown, hidden.
C13_DirectMove ==
    /\ (last.op = "onPoint" /\ Highlighted(last.before)) =>
           /\ _activePoint = LastPair
           /\ HideCalls(last.tooltipCalls) = {}
    /\ (Idle(_activePoint) /\ ~Idle(last.before)) => last.op = "onLeave"
    /\ ScenarioHolds


\* --------------------------------------------------------------------- C14
\* C14: data that does not conform to the nested-series model makes
\* normalization end in an error outcome, before the registry or the index is
\* built.
C14_MalformedDataFailsAtNormalization ==
    (last.op = "normalizeData" /\ ~WellFormed(args.data)) => err # "none"

\* --------------------------------------------------------------------- C15
\* A non-empty flat array of records; an array of series.
IsFlat(v) == v.arr /\ Len(v.items) > 0 /\ AllRecords(v)

IsNested(v) == v.arr /\ AllSeries(v)

\* What normalization is to make of the input v.
Normalized(v) == IF IsFlat(v) THEN Arr(<<v>>) ELSE v

\* The part of C15 about one call: the first normalizeData wraps a flat array
\* once, keeping the order of its records, and leaves nested data unchanged.
C15_FirstCallNormalizes ==
    (normalizations = 1 /\ (IsFlat(args.data) \/ IsNested(args.data))) =>
        data = Normalized(args.data)

\* C15: normalizeData turns a flat array into a one-element array of series
\* with the records in the same order, leaves nested data unchanged, and is
\* idempotent: any number of calls never wraps the data more than once.
C15_NormalizeIdempotent ==
    (normalizations >= 1 /\ (IsFlat(args.data) \/ IsNested(args.data))) =>
        data = Normalized(args.data)


\* --------------------------------------------------------------------- C16
\* The calls of tooltip.update() among the calls cs that carry a record.
RecordCalls(cs) == {n \in 1..Len(cs) : cs[n].call = "update" /\ cs[n].data # <<>>}

\* C16: a chart mounted with zero points (no series, or only empty series)
\* receives no onPoint: whatever pointer events and redraws there are, while it
\* has no points the active state is Idle, no handle is updated and the tooltip
\* is never updated with a record.
C16_ZeroPointsNeverHighlight ==
    Pairs(points) = {} =>
        /\ Idle(_activePoint)
        /\ last.op # "onPoint"
        /\ last.pointCalls = <<>>
        /\ RecordCalls(last.tooltipCalls) = {}

\* --------------------------------------------------------------------- C18
\* C18: in every reachable state the handles of the current registry with the
\* emphasized fill opacity are exactly the active point when the state is
\* Highlighted and none when it is Idle; a redraw does not leave the state
\* Highlighted with no handle emphasized.
C18_EmphasisMatchesState ==
    EmphasizedPairs(points) =
        IF Highlighted(_activePoint) THEN {<<_activePoint.i, _activePoint.j>>} ELSE {}

\* --------------------------------------------------------------------- C19
\* C19: with a tooltip present, in every reachable state the tooltip is shown
\* exactly when the state is Highlighted and hidden exactly when it is Idle;
\* redraw's hide() never leaves it hidden while the state is Highlighted.
C19_TooltipMatchesState ==
    tooltip => (tooltipState.visible <=> Highlighted(_activePoint))

\* --------------------------------------------------------------------- C20
\* The last event carried a pair the registry holds, or was an onLeave.
ValidEvent ==
    \/ last.op = "onLeave"
    \/ last.op = "onPoint" /\ HasPoint(points, last.i, last.j)

\* C20: an onPoint that fails because its pair is outside the registry leaves
\* the stored active point as it was before the event, so a following onLeave
\* or valid onPoint (one that meets no pair left stale by a redraw) completes
\* without error.
C20_FailedEventLeavesState ==
    /\ (last.op = "onPoint" /\ ~HasPoint(points, last.i, last.j) /\ err # "none") =>
           _activePoint = last.before
    /\ (ValidEvent /\ ~last.staleDeref) => err = "none"

=============================================================================
